---- MODULE Spec2Model ----
(***************************************************************************)
(* Job dispatch and lifecycle engine of EviForGe.                          *)
(*                                                                         *)
(* The model follows src/src/eviforge/core/jobs.py (enqueue_job,           *)
(* execute_job_inline, update_job_status), the web submission route        *)
(* src/src/eviforge/api/routes/cases.py (create_case_job) and the desktop  *)
(* backend src/src/eviforge/desktop_backend.py (submit_module,             *)
(* _execute_job).  eviforge.worker.execute_module_task, the worker behind  *)
(* the web route and the queue, is not part of the sources; its steps are  *)
(* taken from section 4.5 of the specification.                            *)
(*                                                                         *)
(* Every "with SessionLocal() as session: ... session.commit()" block is   *)
(* one atomic step on the committed store (jobs).  Rows that were only     *)
(* flushed live in the submitting request (sub.row) until its commit.      *)
(***************************************************************************)
EXTENDS Integers, Sequences, FiniteSets, TLC

VARIABLES
    jobs,       \* committed Job rows, keyed by job id
    sub,        \* the request being served by create_case_job / submit_module
    nextId,     \* number of job ids handed out so far
    clock,      \* per job id, the value the next utcnow() call returns
    queue,      \* job ids published to the RQ queue and not yet consumed
    workers,    \* worker invocations, keyed by <<job id, kind>>
    custody,    \* chain_of_custody.log of every case
    updates     \* number of update_job_status calls made so far

vars == <<jobs, sub, nextId, clock, queue, workers, custody, updates>>

----------------------------------------------------------------------------
(* Bounds of the model *)

MaxJobs == 1

MaxUpdates == 1

MaxSubmissions == 2

MaxListLen == 2

----------------------------------------------------------------------------
(* Values *)

NoneStr == "None"

NoTime == 0

None == <<>>

Some(x) == <<x>>

PENDING == "PENDING"

RUNNING == "RUNNING"

COMPLETED == "COMPLETED"

FAILED == "FAILED"

JobStatus == {PENDING, RUNNING, COMPLETED, FAILED}

Terminal == {COMPLETED, FAILED}

JobIds == 1..MaxJobs

\* Rows of the Case table; "c9" names no case.
Cases == {"c1", "c2"}

CaseInputs == {"c1", "c9"}

\* Rows of the Evidence table and the case each belongs to.
EvidenceCase == [e \in {"e1", "e2"} |-> IF e = "e1" THEN "c1" ELSE "c2"]

EvidenceInputs == {NoneStr, "e1"}

\* Python truthiness of an optional string ("not req.evidence_id").
Truthy(s) == s # NoneStr /\ s # ""

\* The module registry: name -> requires_evidence.
MODULE_REGISTRY == [m \in {"verify", "report"} |-> (m = "verify")]

ModuleInputs == {"verify", "report", "bogus"}

ExecutionModes == {"queue", "inline", "auto"}

\* Outcomes of q.enqueue(): the message is stored and the call returns;
\* the call raises and nothing is stored; the call raises (socket timeout
\* of 2 seconds on the reply) although the message was stored.
PublishOutcomes == {"accepted", "rejected", "lost_reply"}

\* Outcomes of custody.append_entry(): the entry is written, or it raises.
AppendOutcomes == {"ok", "raise"}

----------------------------------------------------------------------------
(* Paths.  A path is the sequence of its segments below the filesystem    *)
(* root; ".." and "." segments may occur before it is resolved.           *)

\* Path.resolve() leaving "." and ".." segments in place.
ResolveLexical(p) == p

RECURSIVE Resolve(_)
\* Path.resolve(): "." is dropped, ".." removes the segment before it.
Resolve(p) ==
    IF p = <<>> THEN <<>>
    ELSE LET r == Resolve(SubSeq(p, 1, Len(p) - 1))
             s == p[Len(p)]
         IN  IF s = "." THEN r
             ELSE IF s = ".." THEN (IF r = <<>> THEN <<>> ELSE SubSeq(r, 1, Len(r) - 1))
             ELSE Append(r, s)

\* Whether p.relative_to(root) succeeds (it raises ValueError otherwise).
IsUnder(p, root) ==
    /\ Len(p) >= Len(root)
    /\ SubSeq(p, 1, Len(root)) = root

\* p.relative_to(root).as_posix(); the root itself gives ".".
RelativeTo(p, root) ==
    IF Len(p) = Len(root) THEN <<".">> ELSE SubSeq(p, Len(root) + 1, Len(p))

\* settings.vault_dir / case_id / "artifacts"
ArtifactsRoot(case_id) == <<"vault", case_id, "artifacts">>

----------------------------------------------------------------------------
(* Module results *)

\* The allow-list of _result_preview.
PreviewKeys ==
    {"status", "error", "file_count", "count", "event_count", "events_count",
     "messages_count", "parsed_objects", "tags_found", "entropy",
     "is_suspicious", "integrity_ok"}

\* _result_preview copying the whole result.
ResultPreviewWhole(result) == result

\* _result_preview: the allow-listed keys of the result, plus output_file.
ResultPreview(result) ==
    [k \in (DOMAIN result) \cap (PreviewKeys \cup {"output_file"}) |-> result[k]]

\* The in-root paths of a list of path values, made relative, in order.
RECURSIVE RelativeInRoot(_, _)
RelativeInRoot(items, root) ==
    IF items = <<>> THEN <<>>
    ELSE LET p == Resolve(Head(items))
             rest == RelativeInRoot(Tail(items), Resolve(root))
         IN  IF IsUnder(p, Resolve(root))
             THEN <<RelativeTo(p, Resolve(root))>> \o rest
             ELSE rest

\* The seen/uniq loop keeping the last occurrence of a duplicate instead of
\* the first.
RECURSIVE UniqKeepLast(_)
UniqKeepLast(out) ==
    IF out = <<>> THEN <<>>
    ELSE LET rest == UniqKeepLast(Tail(out))
         IN  IF \E i \in 1..Len(rest) : rest[i] = Head(out)
             THEN rest ELSE <<Head(out)>> \o rest

\* Order-preserving removal of later duplicates (the seen/uniq loop).
RECURSIVE Uniq(_)
Uniq(out) ==
    IF out = <<>> THEN <<>>
    ELSE LET init == Uniq(SubSeq(out, 1, Len(out) - 1))
             last == out[Len(out)]
         IN  IF \E i \in 1..Len(init) : init[i] = last THEN init ELSE Append(init, last)

\* A value of a result that is not a str (a number, None, a nested list).
NotStr == <<"<not a str>">>

\* isinstance(value, str)
IsStr(value) == value # NotStr

\* _extract_output_files: output_file first, then the output_files list;
\* values that are not strings are skipped.
ExtractOutputFiles(result, artifacts_root) ==
    LET single == IF "output_file" \in DOMAIN result /\ IsStr(result["output_file"])
                  THEN <<result["output_file"]>> ELSE <<>>
        many == IF "output_files" \in DOMAIN result
                THEN SelectSeq(result["output_files"], IsStr) ELSE <<>>
    IN  Uniq(RelativeInRoot(single \o many, artifacts_root))

\* What module.run() can do: return a dict, return something that is not a
\* dict, or raise.
DictResults(case_id) ==
    { [status |-> "ok", rows |-> "r",
       output_file |-> ArtifactsRoot(case_id) \o <<"verify", "out.json">>] }

RunOutcomes(case_id) ==
    [kind : {"dict"}, value : DictResults(case_id)]
        \cup { [kind |-> "nondict", value |-> [status |-> "ok"]],
               [kind |-> "raise", value |-> [status |-> "ok"]] }

AllRunOutcomes == UNION {RunOutcomes(c) : c \in Cases}

\* The text of the exception the except-branch formats.
ExcText(out) ==
    IF out.kind = "nondict" THEN "Module returned non-dict result" ELSE "boom<BEL>"

CustodyExcText == "custody write failed"

\* sanitize_text: control characters are stripped.
SanitizeText(s) ==
    IF s = "boom<BEL>" THEN "boom" ELSE s

----------------------------------------------------------------------------
(* Execution mode *)

\* Values of the environment variable EVIFORGE_JOB_EXECUTION; unset reads
\* as "auto".
EnvValues == {"queue", " Inline", "auto", "celery"}

\* str.strip().lower()
StripLower(s) == IF s = " Inline" THEN "inline" ELSE s

\* _execution_mode()
ExecutionMode(env) ==
    IF StripLower(env) \in ExecutionModes THEN StripLower(env) ELSE "auto"

----------------------------------------------------------------------------
(* Job rows *)

\* params.get(key)
ParamGet(params, key) == IF key \in DOMAIN params THEN params[key] ELSE NoneStr

\* params[key] = value
ParamSet(params, key, value) ==
    [k \in (DOMAIN params) \cup {key} |-> IF k = key THEN value ELSE params[k]]

NoParams == [k \in {} |-> NoneStr]

ParamInputs == {NoParams}

\* The acting identity: the authenticated user of the web request, the
\* actor argument of the desktop backend.
WebUser == "analyst"

DesktopActor == "desktop"

\* Job(...): the columns the constructor does not set are NULL.
NewJob(case_id, evidence_id, tool_name, params, queued_at, created_at, rq_job_id) ==
    [ case_id             |-> case_id,
      evidence_id         |-> evidence_id,
      tool_name           |-> tool_name,
      status              |-> PENDING,
      queued_at           |-> queued_at,
      created_at          |-> created_at,
      started_at          |-> NoTime,
      completed_at        |-> NoTime,
      params_json         |-> params,
      rq_job_id           |-> rq_job_id,
      result_json         |-> None,
      result_preview_json |-> None,
      output_files_json   |-> None,
      error_message       |-> NoneStr ]

InlineToken(job_id) == <<"inline", job_id>>

RqToken(job_id) == <<"rq", job_id>>

DesktopToken(t) == <<"desktop-inline", t>>

\* (job.rq_job_id or "").startswith("inline:")
IsInlineToken(token) == token # None /\ token[1] = "inline"

\* session.add(job); session.commit() of a row
Put(store, job_id, row) ==
    [j \in (DOMAIN store) \cup {job_id} |-> IF j = job_id THEN row ELSE store[j]]

----------------------------------------------------------------------------
(* The request being served *)

NoResp == [code |-> "none", id |-> 0, status |-> NoneStr]

ErrorResp(code) == [code |-> code, id |-> 0, status |-> NoneStr]

Idle(resp) ==
    [pc |-> "idle", jid |-> 0, row |-> None, mode |-> NoneStr, po |-> NoneStr,
     resp |-> resp]

ErrorCodes ==
    {"case_not_found", "unsupported_module", "evidence_required",
     "evidence_not_found", "error_500", "custody_error"}

\* A thread that has been started and has not run yet.
NewWorker == [pc |-> "start", case_id |-> NoneStr]

\* threading.Thread(...).start() for one worker invocation
StartWorker(ws, job_id, kind) ==
    [w \in (DOMAIN ws) \cup {<<job_id, kind>>} |->
        IF w = <<job_id, kind>> THEN NewWorker ELSE ws[w]]

\* append_entry(): one more line in the case's chain_of_custody.log
AppendEntry(log, case_id, action, job_id) ==
    [log EXCEPT ![case_id] = Append(@, [action |-> action, job_id |-> job_id])]

Init ==
    /\ jobs = [j \in {} |-> NewJob(NoneStr, NoneStr, NoneStr, NoParams, NoTime, NoTime, None)]
    /\ sub = Idle(NoResp)
    /\ nextId = 0
    /\ clock = [j \in JobIds |-> 1]
    /\ queue = {}
    /\ workers = [w \in {} |-> NewWorker]
    /\ custody = [c \in Cases |-> <<>>]
    /\ updates = 0

----------------------------------------------------------------------------
(* Web submission: create_case_job and enqueue_job *)

\* create_case_job without its check of the module name.
WebValidationNoModuleCheck(case_id, module, evidence_id) ==
    IF case_id \notin Cases THEN "case_not_found"
    ELSE IF module \in DOMAIN MODULE_REGISTRY
            /\ MODULE_REGISTRY[module] /\ ~Truthy(evidence_id)
         THEN "evidence_required"
    ELSE "ok"

\* The checks create_case_job makes before it creates anything.
WebValidation(case_id, module, evidence_id) ==
    IF case_id \notin Cases THEN "case_not_found"
    ELSE IF module \notin DOMAIN MODULE_REGISTRY THEN "unsupported_module"
    ELSE IF MODULE_REGISTRY[module] /\ ~Truthy(evidence_id) THEN "evidence_required"
    ELSE "ok"

\* The params create_case_job hands to enqueue_job.
WebParams(req_params, evidence_id) ==
    LET p == IF Truthy(evidence_id)
             THEN ParamSet(req_params, "evidence_id", evidence_id)
             ELSE req_params
    IN  ParamSet(p, "actor", WebUser)

\* Whether q.enqueue() left the message in the queue.
Stored(po) == po \in {"accepted", "lost_reply"}

\* Whether q.enqueue() raised.
Raised(po) == po # "accepted"

\* enqueue_job remembering a failed publish process-wide: once a committed
\* Job is inline-backed, later Jobs are inline-backed too.
DispatchTokenSticky(job_id, mode, po) ==
    IF mode = "inline" \/ Raised(po)
          \/ \E j \in DOMAIN jobs : IsInlineToken(jobs[j].rq_job_id)
    THEN InlineToken(job_id)
    ELSE RqToken(job_id)

\* The dispatch token enqueue_job assigns, given the publish outcome.
DispatchToken(job_id, mode, po) ==
    IF mode = "inline" THEN InlineToken(job_id)
    ELSE IF ~Raised(po) THEN RqToken(job_id)
    ELSE InlineToken(job_id)

\* Whether enqueue_job re-raises the publish failure.
PublishFatal(mode, po) == mode = "queue" /\ Raised(po)

\* The queue after enqueue_job: no publish is attempted in inline mode.
Publish(q, job_id, mode, po) ==
    IF mode # "inline" /\ Stored(po) THEN q \cup {job_id} ELSE q

\* enqueue_job attempting the publish in every mode.
OutcomesForAnyMode(mode) == PublishOutcomes

\* The publish outcomes enqueue_job can meet: none in inline mode.
OutcomesFor(mode) == IF mode = "inline" THEN {NoneStr} ELSE PublishOutcomes

\* enqueue_job: the Job row added and flushed in the request's session,
\* then the publish attempt.
EnqueueJob(case_id, tool_name, params, env, po) ==
    LET job_id == nextId + 1
        mode == ExecutionMode(env)
        row == NewJob(case_id, ParamGet(params, "evidence_id"), tool_name, params,
                      clock[job_id], clock[job_id] + 1,
                      DispatchToken(job_id, mode, po))
    IN  /\ nextId' = job_id
        /\ clock' = [clock EXCEPT ![job_id] = @ + 2]
        /\ queue' = Publish(queue, job_id, mode, po)
        /\ sub' = IF PublishFatal(mode, po)
                  THEN Idle(ErrorResp("error_500"))
                  ELSE [pc |-> "web_commit", jid |-> job_id, row |-> Some(row),
                        mode |-> mode, po |-> po, resp |-> NoResp]

\* create_case_job up to the return of enqueue_job: the validation, then
\* enqueue_job under the execution mode and publish outcome it meets; limit
\* caps the job ids handed out.
SubmitWebWithin(limit, case_id, module, evidence_id, req_params) ==
    /\ sub.pc = "idle"
    /\ IF WebValidation(case_id, module, evidence_id) # "ok"
       THEN /\ sub' = Idle(ErrorResp(WebValidation(case_id, module, evidence_id)))
            /\ UNCHANGED <<nextId, clock, queue>>
       ELSE /\ nextId < limit
            /\ \E env \in EnvValues :
                 \E po \in OutcomesFor(ExecutionMode(env)) :
                    EnqueueJob(case_id, module, WebParams(req_params, evidence_id), env, po)
    /\ UNCHANGED <<jobs, workers, custody, updates>>

SubmitWeb(case_id, module, evidence_id, req_params) ==
    SubmitWebWithin(MaxJobs, case_id, module, evidence_id, req_params)

\* session.commit() after enqueue_job returned.
WebCommit ==
    /\ sub.pc = "web_commit"
    /\ jobs' = Put(jobs, sub.jid, sub.row[1])
    /\ sub' = [sub EXCEPT !.pc = "web_custody"]
    /\ UNCHANGED <<nextId, clock, queue, workers, custody, updates>>

\* The job.enqueue custody entry; a failure is swallowed.
WebCustody(ao) ==
    /\ sub.pc = "web_custody"
    /\ custody' = IF ao = "ok"
                  THEN AppendEntry(custody, sub.row[1].case_id, "job.enqueue", sub.jid)
                  ELSE custody
    /\ sub' = [sub EXCEPT !.pc = "web_dispatch"]
    /\ UNCHANGED <<jobs, nextId, clock, queue, workers, updates>>

\* create_case_job never starting the inline worker.
StartsInlineNever(row) == FALSE

\* Whether create_case_job starts an inline worker for the row.
StartsInline(row) == IsInlineToken(row.rq_job_id)

\* The audit record (swallowed on failure), the inline dispatch and the
\* response, built from the row as the session last loaded it.
WebDispatch ==
    /\ sub.pc = "web_dispatch"
    /\ LET row == IF sub.jid \in DOMAIN jobs THEN jobs[sub.jid] ELSE sub.row[1]
       IN  /\ workers' = IF StartsInline(row)
                         THEN StartWorker(workers, sub.jid, "inline")
                         ELSE workers
           /\ sub' = Idle([code |-> "ok", id |-> sub.jid, status |-> row.status])
    /\ UNCHANGED <<jobs, nextId, clock, queue, custody, updates>>

----------------------------------------------------------------------------
(* Desktop submission: DesktopBackend.submit_module *)

\* submit_module without its check of the evidence a module requires.
DesktopValidationNoEvidenceCheck(case_id, module, evidence_id) ==
    IF module \notin DOMAIN MODULE_REGISTRY THEN "unsupported_module"
    ELSE IF case_id \notin Cases THEN "case_not_found"
    ELSE IF Truthy(evidence_id)
            /\ (evidence_id \notin DOMAIN EvidenceCase \/ EvidenceCase[evidence_id] # case_id)
         THEN "evidence_not_found"
    ELSE "ok"

\* The checks submit_module makes before it creates the Job.
DesktopValidation(case_id, module, evidence_id) ==
    IF module \notin DOMAIN MODULE_REGISTRY THEN "unsupported_module"
    ELSE IF MODULE_REGISTRY[module] /\ ~Truthy(evidence_id) THEN "evidence_required"
    ELSE IF case_id \notin Cases THEN "case_not_found"
    ELSE IF Truthy(evidence_id)
            /\ (evidence_id \notin DOMAIN EvidenceCase \/ EvidenceCase[evidence_id] # case_id)
         THEN "evidence_not_found"
    ELSE "ok"

\* run_params of submit_module.
DesktopParams(params, evidence_id) ==
    LET p == IF Truthy(evidence_id)
             THEN ParamSet(params, "evidence_id", evidence_id)
             ELSE params
    IN  ParamSet(p, "actor", DesktopActor)

\* submit_module up to the commit of the new Job row; limit caps the job ids
\* handed out.
SubmitDesktopWithin(limit, case_id, module, evidence_id, params) ==
    /\ sub.pc = "idle"
    /\ LET v == DesktopValidation(case_id, module, evidence_id)
           job_id == nextId + 1
           row == NewJob(case_id, evidence_id, module,
                         DesktopParams(params, evidence_id),
                         clock[job_id], clock[job_id] + 1,
                         DesktopToken(clock[job_id] + 2))
       IN  IF v # "ok"
           THEN /\ sub' = Idle(ErrorResp(v))
                /\ UNCHANGED <<jobs, nextId, clock>>
           ELSE /\ nextId < limit
                /\ nextId' = job_id
                /\ clock' = [clock EXCEPT ![job_id] = @ + 3]
                /\ jobs' = Put(jobs, job_id, row)
                /\ sub' = [pc |-> "desk_custody", jid |-> job_id,
                           row |-> Some(row), mode |-> NoneStr, po |-> NoneStr,
                           resp |-> NoResp]
    /\ UNCHANGED <<queue, workers, custody, updates>>

SubmitDesktop(case_id, module, evidence_id, params) ==
    SubmitDesktopWithin(MaxJobs, case_id, module, evidence_id, params)

\* The job.enqueue custody entry, then the worker thread is started and the
\* job id returned; an exception of append_entry leaves submit_module.
DesktopDispatch(ao) ==
    /\ sub.pc = "desk_custody"
    /\ IF ao = "ok"
       THEN /\ custody' = AppendEntry(custody, sub.row[1].case_id, "job.enqueue", sub.jid)
            /\ workers' = StartWorker(workers, sub.jid, "desktop")
            /\ sub' = Idle([code |-> "ok", id |-> sub.jid, status |-> NoneStr])
       ELSE /\ sub' = Idle(ErrorResp("custody_error"))
            /\ UNCHANGED <<custody, workers>>
    /\ UNCHANGED <<jobs, nextId, clock, queue, updates>>

----------------------------------------------------------------------------
(* The desktop worker: DesktopBackend._execute_job *)

SetPc(ws, w, pc) == [ws EXCEPT ![w].pc = pc]

\* The first session block also storing the kwargs of the run, from which
\* evidence_id, actor and case_id were popped, as the Job's params.
MarkRunningStoresKwargs(row, now) ==
    [row EXCEPT !.status = RUNNING, !.started_at = now,
                !.params_json = [k \in (DOMAIN @) \ {"evidence_id", "actor", "case_id"} |-> @[k]]]

\* The first session block: load the Job, commit RUNNING and started_at.
MarkRunning(row, now) == [row EXCEPT !.status = RUNNING, !.started_at = now]

\* The session block of the success path.
MarkCompleted(row, now, result, artifacts_root) ==
    [row EXCEPT !.status = COMPLETED,
                !.completed_at = now,
                !.result_json = Some(result),
                !.result_preview_json = Some(ResultPreview(result)),
                !.output_files_json = Some(ExtractOutputFiles(result, artifacts_root))]

\* The session block of the except branch.
MarkFailed(row, now, err) ==
    [row EXCEPT !.status = FAILED, !.completed_at = now, !.error_message = err]

\* _execute_job without "if not job: return": the assignment to the status
\* of a missing row raises.
DesktopStartUnchecked(j) ==
    LET w == <<j, "desktop">>
    IN  /\ w \in DOMAIN workers
        /\ workers[w].pc = "start"
        /\ IF j \in DOMAIN jobs
           THEN /\ jobs' = [jobs EXCEPT ![j] = MarkRunning(@, clock[j])]
                /\ clock' = [clock EXCEPT ![j] = @ + 1]
                /\ workers' = [workers EXCEPT ![w] = [pc |-> "run", case_id |-> jobs[j].case_id]]
           ELSE /\ workers' = SetPc(workers, w, "crashed")
                /\ UNCHANGED <<jobs, clock>>
        /\ UNCHANGED <<sub, nextId, queue, custody, updates>>

\* The start of _execute_job: the Job is loaded (absent: return), RUNNING
\* and started_at are committed.
DesktopStart(j) ==
    LET w == <<j, "desktop">>
    IN  /\ w \in DOMAIN workers
        /\ workers[w].pc = "start"
        /\ IF j \in DOMAIN jobs
           THEN /\ jobs' = [jobs EXCEPT ![j] = MarkRunning(@, clock[j])]
                /\ clock' = [clock EXCEPT ![j] = @ + 1]
                /\ workers' = [workers EXCEPT ![w] = [pc |-> "run", case_id |-> jobs[j].case_id]]
           ELSE /\ workers' = SetPc(workers, w, "done")
                /\ UNCHANGED <<jobs, clock>>
        /\ UNCHANGED <<sub, nextId, queue, custody, updates>>

\* module.run() with outcome out and the session block that follows it:
\* COMPLETED for a dict result, FAILED (in the except branch) otherwise.
DesktopRunResult(j, out) ==
    LET w == <<j, "desktop">>
    IN  /\ w \in DOMAIN workers
        /\ workers[w].pc = "run"
        /\ IF out.kind = "dict"
           THEN IF j \in DOMAIN jobs
                THEN /\ jobs' = [jobs EXCEPT ![j] =
                            MarkCompleted(@, clock[j], out.value, ArtifactsRoot(workers[w].case_id))]
                     /\ clock' = [clock EXCEPT ![j] = @ + 1]
                     /\ workers' = SetPc(workers, w, "log_complete")
                ELSE /\ workers' = SetPc(workers, w, "done")
                     /\ UNCHANGED <<jobs, clock>>
           ELSE /\ workers' = SetPc(workers, w, "log_failed")
                /\ IF j \in DOMAIN jobs
                   THEN /\ jobs' = [jobs EXCEPT ![j] =
                                MarkFailed(@, clock[j], SanitizeText(ExcText(out)))]
                        /\ clock' = [clock EXCEPT ![j] = @ + 1]
                   ELSE UNCHANGED <<jobs, clock>>
        /\ UNCHANGED <<sub, nextId, queue, custody, updates>>

\* The same, for the outcomes a module run for the Job's case can have.
DesktopRun(j, out) ==
    /\ <<j, "desktop">> \in DOMAIN workers
    /\ out \in RunOutcomes(workers[<<j, "desktop">>].case_id)
    /\ DesktopRunResult(j, out)

\* append_entry(job.complete) inside the try block: when it raises, the
\* except branch runs and commits FAILED.
DesktopLogComplete(j, ao) ==
    LET w == <<j, "desktop">>
    IN  /\ w \in DOMAIN workers
        /\ workers[w].pc = "log_complete"
        /\ IF ao = "ok"
           THEN /\ custody' = AppendEntry(custody, workers[w].case_id, "job.complete", j)
                /\ workers' = SetPc(workers, w, "done")
                /\ UNCHANGED <<jobs, clock>>
           ELSE /\ workers' = SetPc(workers, w, "log_failed")
                /\ UNCHANGED custody
                /\ IF j \in DOMAIN jobs
                   THEN /\ jobs' = [jobs EXCEPT ![j] =
                                MarkFailed(@, clock[j], SanitizeText(CustodyExcText))]
                        /\ clock' = [clock EXCEPT ![j] = @ + 1]
                   ELSE UNCHANGED <<jobs, clock>>
        /\ UNCHANGED <<sub, nextId, queue, updates>>

\* append_entry(job.failed) at the end of the except branch: when it raises,
\* the exception leaves _execute_job.
DesktopLogFailed(j, ao) ==
    LET w == <<j, "desktop">>
    IN  /\ w \in DOMAIN workers
        /\ workers[w].pc = "log_failed"
        /\ IF ao = "ok"
           THEN /\ custody' = AppendEntry(custody, workers[w].case_id, "job.failed", j)
                /\ workers' = SetPc(workers, w, "done")
           ELSE /\ workers' = SetPc(workers, w, "crashed")
                /\ UNCHANGED custody
        /\ UNCHANGED <<jobs, sub, nextId, clock, queue, updates>>

----------------------------------------------------------------------------
(* The worker behind the web route and the queue:                          *)
(* eviforge.worker.execute_module_task, after section 4.5 of the           *)
(* specification.                                                          *)

WebKinds == {"inline", "queue"}

\* The queue backend hands a published job id to a worker process.
QueueConsume(j) ==
    /\ j \in queue
    /\ <<j, "queue">> \notin DOMAIN workers
    /\ queue' = queue \ {j}
    /\ workers' = StartWorker(workers, j, "queue")
    /\ UNCHANGED <<jobs, sub, nextId, clock, custody, updates>>

\* Steps 1 and 2: load the Job (absent: no-op), commit RUNNING.
TaskStart(j, k) ==
    LET w == <<j, k>>
    IN  /\ k \in WebKinds
        /\ w \in DOMAIN workers
        /\ workers[w].pc = "start"
        /\ IF j \in DOMAIN jobs
           THEN /\ jobs' = [jobs EXCEPT ![j] = MarkRunning(@, clock[j])]
                /\ clock' = [clock EXCEPT ![j] = @ + 1]
                /\ workers' = [workers EXCEPT ![w] = [pc |-> "run", case_id |-> jobs[j].case_id]]
           ELSE /\ workers' = SetPc(workers, w, "done")
                /\ UNCHANGED <<jobs, clock>>
        /\ UNCHANGED <<sub, nextId, queue, custody, updates>>

\* Steps 3 to 5: run the module, commit COMPLETED or FAILED.
TaskRun(j, k, out) ==
    LET w == <<j, k>>
    IN  /\ k \in WebKinds
        /\ w \in DOMAIN workers
        /\ workers[w].pc = "run"
        /\ out \in RunOutcomes(workers[w].case_id)
        /\ j \in DOMAIN jobs
        /\ jobs' = [jobs EXCEPT ![j] =
                IF out.kind = "dict"
                THEN MarkCompleted(@, clock[j], out.value, ArtifactsRoot(workers[w].case_id))
                ELSE MarkFailed(@, clock[j], SanitizeText(ExcText(out)))]
        /\ clock' = [clock EXCEPT ![j] = @ + 1]
        /\ workers' = SetPc(workers, w, IF out.kind = "dict" THEN "log_complete" ELSE "log_failed")
        /\ UNCHANGED <<sub, nextId, queue, custody, updates>>

\* Step 6: the custody entry, best effort.
TaskLog(j, k, ao) ==
    LET w == <<j, k>>
    IN  /\ k \in WebKinds
        /\ w \in DOMAIN workers
        /\ workers[w].pc \in {"log_complete", "log_failed"}
        /\ custody' = IF ao = "ok"
                      THEN AppendEntry(custody, workers[w].case_id,
                                       IF workers[w].pc = "log_complete"
                                       THEN "job.complete" ELSE "job.failed", j)
                      ELSE custody
        /\ workers' = SetPc(workers, w, "done")
        /\ UNCHANGED <<jobs, sub, nextId, clock, queue, updates>>

----------------------------------------------------------------------------
(* update_job_status *)

\* update_job_status leaving completed_at as it was.
CompletedAtKept(row, status, now) == row.completed_at

\* completed_at after update_job_status.
CompletedAtAfter(row, status, now) ==
    IF status \in Terminal THEN now ELSE row.completed_at

\* The row update_job_status commits.
Updated(row, status, result, error, now) ==
    [row EXCEPT !.status = status,
                !.result_json = IF result # None THEN result ELSE @,
                !.error_message = IF error # NoneStr THEN error ELSE @,
                !.completed_at = CompletedAtAfter(row, status, now)]

\* The calls a caller reporting a job's progress makes: (status, result, error).
UpdateInputs ==
    { <<PENDING, None, NoneStr>>,
      <<RUNNING, None, NoneStr>>,
      <<COMPLETED, Some([status |-> "ok"]), NoneStr>>,
      <<FAILED, None, "boom">> }

UpdateJobStatus(j, status, result, error) ==
    /\ updates < MaxUpdates
    /\ updates' = updates + 1
    /\ IF j \in DOMAIN jobs
       THEN /\ jobs' = [jobs EXCEPT ![j] = Updated(@, status, result, error, clock[j])]
            /\ clock' = IF status \in Terminal
                        THEN [clock EXCEPT ![j] = @ + 1] ELSE clock
       ELSE UNCHANGED <<jobs, clock>>
    /\ UNCHANGED <<sub, nextId, queue, workers, custody>>

----------------------------------------------------------------------------
(* The system *)

Next ==
    \/ \E c \in CaseInputs, m \in ModuleInputs, e \in EvidenceInputs,
          p \in ParamInputs : SubmitWeb(c, m, e, p)
    \/ WebCommit
    \/ \E ao \in AppendOutcomes : WebCustody(ao)
    \/ WebDispatch
    \/ \E c \in CaseInputs, m \in ModuleInputs, e \in EvidenceInputs,
          p \in ParamInputs : SubmitDesktop(c, m, e, p)
    \/ \E ao \in AppendOutcomes : DesktopDispatch(ao)
    \/ \E j \in JobIds : DesktopStart(j)
    \/ \E j \in JobIds, out \in AllRunOutcomes : DesktopRun(j, out)
    \/ \E j \in JobIds, ao \in AppendOutcomes : DesktopLogComplete(j, ao)
    \/ \E j \in JobIds, ao \in AppendOutcomes : DesktopLogFailed(j, ao)
    \/ \E j \in JobIds : QueueConsume(j)
    \/ \E j \in JobIds, k \in WebKinds : TaskStart(j, k)
    \/ \E j \in JobIds, k \in WebKinds, out \in AllRunOutcomes : TaskRun(j, k, out)
    \/ \E j \in JobIds, k \in WebKinds, ao \in AppendOutcomes : TaskLog(j, k, ao)
    \/ \E j \in JobIds, u \in UpdateInputs : UpdateJobStatus(j, u[1], u[2], u[3])

Spec == Init /\ [][Next]_vars

\* The request thread, once it has created a Job, runs to its return.
RequestSteps ==
    \/ WebCommit
    \/ \E ao \in AppendOutcomes : WebCustody(ao)
    \/ WebDispatch
    \/ \E ao \in AppendOutcomes : DesktopDispatch(ao)

\* One started worker thread or queue worker runs to its end.
TaskSteps(j, k) ==
    \/ TaskStart(j, k)
    \/ \E out \in AllRunOutcomes : TaskRun(j, k, out)
    \/ \E ao \in AppendOutcomes : TaskLog(j, k, ao)

DesktopSteps(j) ==
    \/ DesktopStart(j)
    \/ \E out \in AllRunOutcomes : DesktopRun(j, out)
    \/ \E ao \in AppendOutcomes : DesktopLogComplete(j, ao)
    \/ \E ao \in AppendOutcomes : DesktopLogFailed(j, ao)

\* Threads that were started are scheduled, and module.run() returns or
\* raises; nothing is assumed about new requests, the queue's delivery or
\* update_job_status calls.
FairSpec ==
    /\ Spec
    /\ WF_vars(RequestSteps)
    /\ \A j \in JobIds : WF_vars(DesktopSteps(j))
    /\ \A j \in JobIds : \A k \in WebKinds : WF_vars(TaskSteps(j, k))

----------------------------------------------------------------------------
(* Successive web submissions: the web route, the queue and the first step *)
(* of the workers it starts, with room for more than one Job.              *)

SubmissionIds == 1..MaxSubmissions

InitSubmit ==
    /\ jobs = [j \in {} |-> NewJob(NoneStr, NoneStr, NoneStr, NoParams, NoTime, NoTime, None)]
    /\ sub = Idle(NoResp)
    /\ nextId = 0
    /\ clock = [j \in SubmissionIds |-> 1]
    /\ queue = {}
    /\ workers = [w \in {} |-> NewWorker]
    /\ custody = [c \in Cases |-> <<>>]
    /\ updates = 0

NextSubmit ==
    \/ \E c \in CaseInputs, m \in ModuleInputs, e \in EvidenceInputs,
          p \in ParamInputs : SubmitWebWithin(MaxSubmissions, c, m, e, p)
    \/ WebCommit
    \/ \E ao \in AppendOutcomes : WebCustody(ao)
    \/ WebDispatch
    \/ \E j \in SubmissionIds : QueueConsume(j)
    \/ \E j \in SubmissionIds, k \in WebKinds : TaskStart(j, k)

SubmitSpec == InitSubmit /\ [][NextSubmit]_vars

----------------------------------------------------------------------------
(* The desktop backend run on modules that report output files of every    *)
(* kind.                                                                    *)

\* Path values a module may report, as absolute paths (a relative path is
\* taken from the working directory, /app): inside the artifact root of
\* case c1, inside it through "..", the root itself, outside it through
\* "..", elsewhere, relative to the working directory.
PathInputs ==
    { ArtifactsRoot("c1") \o <<"verify", "out.json">>,
      ArtifactsRoot("c1") \o <<"tmp", "..", "out.csv">>,
      ArtifactsRoot("c1"),
      ArtifactsRoot("c1") \o <<"..", "secret">>,
      <<"etc", "passwd">>,
      <<"app", "out.json">> }

ValueInputs == PathInputs \cup {NotStr}

\* output_files lists of up to MaxListLen values.
ListInputs == UNION { [1..n -> ValueInputs] : n \in 0..MaxListLen }

\* The dict results: output_file and output_files each absent or present.
ExtractResults ==
    { [status |-> "ok"] }
        \cup { [status |-> "ok", output_file |-> f] : f \in ValueInputs }
        \cup { [status |-> "ok", output_files |-> l] : l \in ListInputs }
        \cup { [status |-> "ok", output_file |-> f, output_files |-> l] :
                  f \in ValueInputs, l \in ListInputs }

ExtractOutcomes ==
    [kind : {"dict"}, value : ExtractResults]
        \cup { [kind |-> "raise", value |-> [status |-> "ok"]] }

NextExtract ==
    \/ \E c \in CaseInputs, m \in ModuleInputs, e \in EvidenceInputs,
          p \in ParamInputs : SubmitDesktop(c, m, e, p)
    \/ \E ao \in AppendOutcomes : DesktopDispatch(ao)
    \/ \E j \in JobIds : DesktopStart(j)
    \/ \E j \in JobIds, out \in ExtractOutcomes : DesktopRunResult(j, out)
    \/ \E j \in JobIds, ao \in AppendOutcomes : DesktopLogComplete(j, ao)
    \/ \E j \in JobIds, ao \in AppendOutcomes : DesktopLogFailed(j, ao)

ExtractSpec == Init /\ [][NextExtract]_vars

----------------------------------------------------------------------------
(* The desktop backend and update_job_status on a store whose rows an      *)
(* external retention job may remove.                                      *)

\* A Job row is removed from the store from outside the core.
RemoveJob(j) ==
    /\ j \in DOMAIN jobs
    /\ jobs' = [k \in (DOMAIN jobs) \ {j} |-> jobs[k]]
    /\ UNCHANGED <<sub, nextId, clock, queue, workers, custody, updates>>

NextRemoval ==
    \/ \E c \in CaseInputs, m \in ModuleInputs, e \in EvidenceInputs,
          p \in ParamInputs : SubmitDesktop(c, m, e, p)
    \/ \E ao \in AppendOutcomes : DesktopDispatch(ao)
    \/ \E j \in JobIds : DesktopStart(j)
    \/ \E j \in JobIds, out \in AllRunOutcomes : DesktopRun(j, out)
    \/ \E j \in JobIds, ao \in AppendOutcomes : DesktopLogComplete(j, ao)
    \/ \E j \in JobIds, ao \in AppendOutcomes : DesktopLogFailed(j, ao)
    \/ \E j \in JobIds, u \in UpdateInputs : UpdateJobStatus(j, u[1], u[2], u[3])
    \/ \E j \in JobIds : RemoveJob(j)

RemovalSpec == Init /\ [][NextRemoval]_vars

----------------------------------------------------------------------------
(* Concurrent desktop Jobs: several submissions whose worker threads run   *)
(* interleaved, each module writing its own artifact.                      *)

\* The dict a module returns: its artifact is under the case's root, in a
\* directory of the module's name.
ModuleResult(case_id, module) ==
    [status |-> "ok", output_file |-> ArtifactsRoot(case_id) \o <<module, "out.json">>]

\* What the run of a module can do.
ModuleOutcomes(case_id, module) ==
    { [kind |-> "dict", value |-> ModuleResult(case_id, module)],
      [kind |-> "nondict", value |-> [status |-> "ok"]],
      [kind |-> "raise", value |-> [status |-> "ok"]] }

NextConcurrent ==
    \/ \E c \in CaseInputs, m \in ModuleInputs, e \in EvidenceInputs,
          p \in ParamInputs : SubmitDesktopWithin(MaxSubmissions, c, m, e, p)
    \/ \E ao \in AppendOutcomes : DesktopDispatch(ao)
    \/ \E j \in SubmissionIds : DesktopStart(j)
    \/ \E j \in DOMAIN jobs :
          \E out \in ModuleOutcomes(jobs[j].case_id, jobs[j].tool_name) :
              DesktopRunResult(j, out)
    \/ \E j \in SubmissionIds, ao \in AppendOutcomes : DesktopLogComplete(j, ao)
    \/ \E j \in SubmissionIds, ao \in AppendOutcomes : DesktopLogFailed(j, ao)

ConcurrentSpec == InitSubmit /\ [][NextConcurrent]_vars

----------------------------------------------------------------------------
(* Re-runs: several desktop submissions, their workers, and                 *)
(* update_job_status.                                                      *)

NextRerun ==
    \/ NextConcurrent
    \/ \E j \in SubmissionIds, u \in UpdateInputs : UpdateJobStatus(j, u[1], u[2], u[3])

RerunSpec == InitSubmit /\ [][NextRerun]_vars

----------------------------------------------------------------------------
(* Submissions with caller-supplied params and evidence references of      *)
(* every kind, on the web route and the desktop backend.                   *)

\* Evidence references a caller may send: none, an item of case c1, an item
\* of another case, an id that names no item.
EvidenceChoices == {NoneStr, "e1", "e2", "e9"}

\* Params a caller may send: none, an ordinary option, an actor of its own,
\* an evidence_id of its own.
ParamChoices ==
    { NoParams,
      [limit |-> "10"],
      [actor |-> "mallory"],
      [evidence_id |-> "e9"] }

NextInput ==
    \/ \E c \in CaseInputs, m \in ModuleInputs, e \in EvidenceChoices,
          p \in ParamChoices : SubmitWebWithin(MaxJobs, c, m, e, p)
    \/ WebCommit
    \/ \E ao \in AppendOutcomes : WebCustody(ao)
    \/ WebDispatch
    \/ \E c \in CaseInputs, m \in ModuleInputs, e \in EvidenceChoices,
          p \in ParamChoices : SubmitDesktopWithin(MaxJobs, c, m, e, p)
    \/ \E ao \in AppendOutcomes : DesktopDispatch(ao)

InputSpec == Init /\ [][NextInput]_vars

----------------------------------------------------------------------------
(* Claims *)

AllowedTransitions ==
    {<<PENDING, RUNNING>>, <<RUNNING, COMPLETED>>, <<RUNNING, FAILED>>}

\* C1: the only persisted status changes of a Job are PENDING->RUNNING,
\* RUNNING->COMPLETED and RUNNING->FAILED, whatever submit, the workers and
\* update_job_status do.
C1_OnlyStateMachineTransitions ==
    [][\A j \in DOMAIN jobs :
          jobs'[j].status # jobs[j].status
              => <<jobs[j].status, jobs'[j].status>> \in AllowedTransitions]_vars

\* C2: once a Job's persisted status is COMPLETED or FAILED, no step changes
\* that status.
C2_TerminalImmutable ==
    [][\A j \in DOMAIN jobs :
          jobs[j].status \in Terminal => jobs'[j].status = jobs[j].status]_vars

\* A step in which a custody append (job.enqueue, job.complete, job.failed)
\* raises.
CustodyAppendRaises ==
    \/ WebCustody("raise")
    \/ DesktopDispatch("raise")
    \/ \E j \in JobIds : DesktopLogComplete(j, "raise")
    \/ \E j \in JobIds : DesktopLogFailed(j, "raise")
    \/ \E j \in JobIds, k \in WebKinds : TaskLog(j, k, "raise")

\* C3: a custody append that raises leaves every Job's persisted state
\* (status, result, error_message, completed_at) as a successful append
\* leaves it: unchanged.
C3_CustodyFailureKeepsJobState ==
    [][CustodyAppendRaises => jobs' = jobs]_vars

\* C4: the Job row is committed before its id is published or handed to a
\* worker: every published id and every started worker names a committed Job.
C4_CommittedBeforeDispatch ==
    /\ \A j \in queue : j \in DOMAIN jobs
    /\ \A w \in DOMAIN workers : w[1] \in DOMAIN jobs

\* Whether job id j was published to the queue (delivered already or not).
WasPublished(j) == j \in queue \/ <<j, "queue">> \in DOMAIN workers

\* C5: a Job is published to the queue or scheduled inline, never both, so
\* no job id ever has two worker invocations.
C5_AtMostOneWorker ==
    \A j \in JobIds : ~(WasPublished(j) /\ <<j, "inline">> \in DOMAIN workers)

\* C6: under auto mode with an unreachable queue, submit returns the Job and
\* the Job reaches COMPLETED or FAILED, given that the started worker thread
\* is scheduled and module.run() returns or raises.
C6_AutoFallbackTerminates ==
    \A j \in JobIds :
        /\ (sub.pc = "web_commit" /\ sub.jid = j /\ sub.mode = "auto" /\ sub.po = "rejected")
              ~> (sub.pc = "idle" /\ sub.resp.code = "ok" /\ sub.resp.id = j)
        /\ (sub.pc = "web_commit" /\ sub.jid = j /\ sub.mode = "auto" /\ sub.po = "rejected")
              ~> (j \in DOMAIN jobs /\ jobs[j].status \in Terminal)

\* An auto-mode Job whose publish was rejected has run inline to its end.
C6_Witness ==
    \E j \in DOMAIN jobs :
        /\ jobs[j].rq_job_id = InlineToken(j)
        /\ <<j, "inline">> \in DOMAIN workers
        /\ workers[<<j, "inline">>].pc = "done"
        /\ ~WasPublished(j)
        /\ jobs[j].status \in Terminal

\* C7: in every reachable state a Job whose persisted status is COMPLETED or
\* FAILED has completed_at set.
C7_TerminalHasCompletedAt ==
    \A j \in DOMAIN jobs :
        jobs[j].status \in Terminal => jobs[j].completed_at # NoTime

\* A Job made terminal by update_job_status before any worker touched it.
C7_Witness ==
    \E j \in DOMAIN jobs :
        /\ jobs[j].status \in Terminal
        /\ jobs[j].started_at = NoTime
        /\ jobs[j].completed_at # NoTime

\* C8: a Job never has both result and error_message; a COMPLETED Job has a
\* result and no error_message, a FAILED Job an error_message and no result,
\* and error_message is present only when status = FAILED.
C8_ResultXorError ==
    \A j \in DOMAIN jobs :
        /\ ~(jobs[j].result_json # None /\ jobs[j].error_message # NoneStr)
        /\ jobs[j].status = COMPLETED
              => (jobs[j].result_json # None /\ jobs[j].error_message = NoneStr)
        /\ jobs[j].status = FAILED
              => (jobs[j].error_message # NoneStr /\ jobs[j].result_json = None)
        /\ jobs[j].error_message # NoneStr => jobs[j].status = FAILED

UnknownModules == ModuleInputs \ DOMAIN MODULE_REGISTRY

\* What a rejected submission leaves behind: an error response, and the job
\* store, the custody log, the workers and the queue as they were.
Rejected(code) ==
    /\ sub'.pc = "idle"
    /\ sub'.resp = ErrorResp(code)
    /\ UNCHANGED <<jobs, custody, workers, queue, nextId>>

\* C9: submitting a module name absent from the registry returns a
\* validation error and creates no Job, on the web route and on the desktop
\* backend: store, custody log, workers and queue are unchanged.
C9_UnknownModuleRejected ==
    [][\A c \in CaseInputs, m \in UnknownModules, e \in EvidenceInputs, p \in ParamInputs :
          /\ SubmitWeb(c, m, e, p)
                => Rejected(IF c \in Cases THEN "unsupported_module" ELSE "case_not_found")
          /\ SubmitDesktop(c, m, e, p) => Rejected("unsupported_module")]_vars

\* An unknown module has been rejected while a Job is in the store.
C9_Witness ==
    /\ sub.resp.code = "unsupported_module"
    /\ sub.pc = "idle"
    /\ DOMAIN jobs # {}

EvidenceModules == {m \in DOMAIN MODULE_REGISTRY : MODULE_REGISTRY[m]}

\* C10: submitting a module that requires evidence without an evidence
\* reference returns a validation error at once and creates no Job.
C10_EvidenceRequiredRejected ==
    [][\A c \in CaseInputs, m \in EvidenceModules, p \in ParamInputs :
          /\ SubmitWeb(c, m, NoneStr, p)
                => Rejected(IF c \in Cases THEN "evidence_required" ELSE "case_not_found")
          /\ SubmitDesktop(c, m, NoneStr, p) => Rejected("evidence_required")]_vars

\* A submission without the required evidence has been rejected while a Job
\* is in the store.
C10_Witness ==
    /\ sub.resp.code = "evidence_required"
    /\ sub.pc = "idle"
    /\ DOMAIN jobs # {}

\* A job id that was handed out and whose submission ended without a
\* committed row: enqueue_job raised and the session was rolled back.
FailedSubmission(j) ==
    /\ j \in 1..nextId
    /\ j \notin DOMAIN jobs
    /\ sub.jid # j

\* C11: under queue mode a failed publish is surfaced as a submission error
\* and leaves no Job that could ever run: no row of that submission is
\* committed, its id is not in the queue and no worker is scheduled for it.
C11_QueueFailureLeavesNoJob ==
    \A j \in JobIds :
        FailedSubmission(j)
            => /\ sub.pc = "idle" => sub.resp.code = "error_500"
               /\ j \notin queue
               /\ \A w \in DOMAIN workers : w[1] # j

\* An auto-mode submission step: a new job id is handed out to a request
\* that runs under auto mode.
AutoSubmitStep ==
    /\ nextId' = nextId + 1
    /\ sub'.pc = "web_commit"
    /\ sub'.mode = "auto"

\* C12: under auto mode every submission attempts a publish, whatever
\* happened to earlier submissions; a failed publish marks that Job, and only
\* that Job, inline-backed with token inline:<job_id>, and a submission whose
\* publish succeeds is queue-backed and in the queue.
C12_AutoFallbackPerSubmission ==
    [][AutoSubmitStep =>
          /\ sub'.po \in PublishOutcomes
          /\ sub'.row[1].rq_job_id =
                IF sub'.po = "accepted" THEN RqToken(nextId') ELSE InlineToken(nextId')
          /\ sub'.po = "accepted" => nextId' \in queue'
          /\ sub'.po = "rejected" => queue' = queue
          /\ jobs' = jobs]_vars

\* After a first Job fell back to inline, a second submission under auto mode
\* met a reachable queue and is queue-backed.
C12_Witness ==
    /\ 1 \in DOMAIN jobs
    /\ jobs[1].rq_job_id = InlineToken(1)
    /\ sub.pc = "web_commit"
    /\ sub.jid = 2
    /\ sub.mode = "auto"
    /\ sub.po = "accepted"
    /\ sub.row[1].rq_job_id = RqToken(2)
    /\ 2 \in queue

\* A step in which the module's run for Job j raises or returns a result
\* that is not a mapping.
RunFails(j) ==
    \/ \E out \in AllRunOutcomes : out.kind # "dict" /\ DesktopRun(j, out)
    \/ \E k \in WebKinds, out \in AllRunOutcomes : out.kind # "dict" /\ TaskRun(j, k, out)

\* C13: when a module's run raises or returns a non-mapping result, the Job
\* is FAILED with a non-empty error_message and completed_at set, and has no
\* result, no preview and no output files.
C13_FailedRunRecordsOnlyError ==
    [][\A j \in DOMAIN jobs :
          RunFails(j)
              => /\ jobs'[j].status = FAILED
                 /\ jobs'[j].error_message \notin {NoneStr, ""}
                 /\ jobs'[j].completed_at # NoTime
                 /\ jobs'[j].output_files_json \in {None, Some(<<>>)}
                 /\ jobs'[j].result_json = None
                 /\ jobs'[j].result_preview_json = None]_vars

\* C14: no exception raised while a Job is processed leaves the worker entry
\* points _execute_job and _run_inline: no worker invocation ever ends with
\* an exception.
C14_NoExceptionLeavesWorker ==
    \A w \in DOMAIN workers : workers[w].pc # "crashed"

\* The custody action that records a terminal status.
TerminalAction(status) == IF status = COMPLETED THEN "job.complete" ELSE "job.failed"

\* The job.complete and job.failed entries of Job j in a custody log, in order.
TerminalEntries(log, j) ==
    SelectSeq(log, LAMBDA en : en.job_id = j /\ en.action \in {"job.complete", "job.failed"})

\* Job j is terminal, and the worker invocations made for it have ended.
Settled(j) ==
    /\ j \in DOMAIN jobs
    /\ jobs[j].status \in Terminal
    /\ j \notin queue
    /\ sub.jid # j
    /\ \E w \in DOMAIN workers : w[1] = j
    /\ \A w \in DOMAIN workers : w[1] = j => workers[w].pc \in {"done", "crashed"}

\* C15: every Job that reaches a terminal state gets a custody entry after
\* its terminal status is committed, the entry's action (job.complete or
\* job.failed) matches the Job's final persisted status, and no such entry is
\* appended for a Job whose terminal status is not committed.
C15_TerminalCustodyEntry ==
    /\ [](\A j \in JobIds :
            Settled(j) =>
                LET es == TerminalEntries(custody[jobs[j].case_id], j)
                IN  /\ es # <<>>
                    /\ es[Len(es)].action = TerminalAction(jobs[j].status))
    /\ [][\A c \in Cases :
            custody'[c] # custody[c] =>
                LET en == custody'[c][Len(custody'[c])]
                IN  en.action \in {"job.complete", "job.failed"} =>
                        /\ en.job_id \in DOMAIN jobs
                        /\ jobs[en.job_id].status \in Terminal
                        /\ en.action = TerminalAction(jobs[en.job_id].status)]_vars

\* The path an output_files entry names: the entry taken from the artifact
\* root, resolved.
EntryTarget(entry, root) == Resolve(Resolve(root) \o entry)

\* The values of a result that _extract_output_files looks at.
ReportedPaths(result) ==
    (IF "output_file" \in DOMAIN result THEN {result["output_file"]} ELSE {})
        \cup (IF "output_files" \in DOMAIN result
              THEN {result["output_files"][i] : i \in 1..Len(result["output_files"])}
              ELSE {})

\* C16: every entry of a Job's output_files is relative to the Job's case
\* artifact root and resolves inside that root, and is a path the module
\* reported; reported paths that resolve outside the root are not recorded.
C16_OutputFilesInsideRoot ==
    \A j \in DOMAIN jobs :
        jobs[j].output_files_json # None =>
            LET root == ArtifactsRoot(jobs[j].case_id)
                files == jobs[j].output_files_json[1]
            IN  \A i \in 1..Len(files) :
                    /\ IsUnder(EntryTarget(files[i], root), Resolve(root))
                    /\ \A s \in 1..Len(files[i]) : files[i][s] # ".."
                    /\ \E p \in ReportedPaths(jobs[j].result_json[1]) :
                          /\ IsStr(p)
                          /\ Resolve(p) = EntryTarget(files[i], root)

\* A COMPLETED Job whose module reported a path inside the root and a path
\* that leaves the root through "..": only the first is recorded.
C16_Witness ==
    \E j \in DOMAIN jobs :
        /\ jobs[j].status = COMPLETED
        /\ jobs[j].result_json # None
        /\ "output_files" \in DOMAIN jobs[j].result_json[1]
        /\ jobs[j].result_json[1]["output_files"] =
              << ArtifactsRoot("c1") \o <<"..", "secret">>,
                 ArtifactsRoot("c1") \o <<"verify", "out.json">> >>
        /\ jobs[j].output_files_json = Some(<< <<"verify", "out.json">> >>)

\* C17: for an inline-backed submission the submitting thread starts the
\* worker without running the module or waiting for it (the dispatch step
\* changes no Job and leaves the new worker unstarted), and the Job summary
\* it returns reports status PENDING.
C17_InlineSubmitReturnsPending ==
    /\ [](sub.pc = "idle" /\ sub.resp.code = "ok" /\ sub.resp.id \in DOMAIN jobs
            => (IsInlineToken(jobs[sub.resp.id].rq_job_id) => sub.resp.status = PENDING))
    /\ [][WebDispatch /\ IsInlineToken(sub.row[1].rq_job_id)
            => /\ jobs' = jobs
               /\ workers'[<<sub.jid, "inline">>] = NewWorker
               /\ sub'.pc = "idle"]_vars

\* C18: for every Job, completed_at >= started_at >= queued_at whenever the
\* respective timestamps are present.
C18_TimestampsMonotonic ==
    \A j \in DOMAIN jobs :
        /\ jobs[j].started_at # NoTime => jobs[j].started_at >= jobs[j].queued_at
        /\ jobs[j].completed_at # NoTime => jobs[j].completed_at >= jobs[j].queued_at
        /\ (jobs[j].completed_at # NoTime /\ jobs[j].started_at # NoTime)
              => jobs[j].completed_at >= jobs[j].started_at

\* C19: queued_at, started_at and completed_at are each set once: a timestamp
\* that has a value is not overwritten by any later step.
C19_TimestampsSetOnce ==
    [][\A j \in DOMAIN jobs :
          /\ jobs[j].queued_at # NoTime => jobs'[j].queued_at = jobs[j].queued_at
          /\ jobs[j].started_at # NoTime => jobs'[j].started_at = jobs[j].started_at
          /\ jobs[j].completed_at # NoTime
                => jobs'[j].completed_at = jobs[j].completed_at]_vars

\* C20: in every reachable state a Job whose persisted status is RUNNING has
\* started_at set, whoever made the transition.
C20_RunningHasStartedAt ==
    \A j \in DOMAIN jobs :
        jobs[j].status = RUNNING => jobs[j].started_at # NoTime

\* A step that starts a worker invocation for Job j.
WorkerStarts(j) ==
    \/ DesktopStart(j)
    \/ \E k \in WebKinds : TaskStart(j, k)

\* C21: executing the worker for a job id that is absent from the store is a
\* no-op: the store and the custody log are unchanged, the invocation ends
\* without running the module and without an exception; update_job_status
\* for an absent job id changes neither the store nor the custody log.
C21_AbsentJobNoOp ==
    [][\A j \in JobIds :
          j \notin DOMAIN jobs =>
              /\ WorkerStarts(j)
                    => /\ jobs' = jobs
                       /\ custody' = custody
                       /\ \A w \in DOMAIN workers :
                             workers'[w] # workers[w] => workers'[w].pc = "done"
              /\ (\E u \in UpdateInputs : UpdateJobStatus(j, u[1], u[2], u[3]))
                    => /\ jobs' = jobs
                       /\ custody' = custody
                       /\ workers' = workers]_vars

\* The desktop worker of a removed Job has ended at its first load: the
\* clock was not read again after submit_module.
C21_Witness ==
    \E j \in JobIds :
        /\ j \notin DOMAIN jobs
        /\ <<j, "desktop">> \in DOMAIN workers
        /\ workers[<<j, "desktop">>].pc = "done"
        /\ clock[j] = 4
        /\ updates = 1

\* A step of the desktop worker of Job j.
DesktopWorkerStep(j) ==
    \/ DesktopStart(j)
    \/ \E out \in ModuleOutcomes(jobs[j].case_id, jobs[j].tool_name) : DesktopRunResult(j, out)
    \/ \E ao \in AppendOutcomes : DesktopLogComplete(j, ao)
    \/ \E ao \in AppendOutcomes : DesktopLogFailed(j, ao)

\* The desktop worker of Job j has ended.
WorkerEnded(j) ==
    /\ <<j, "desktop">> \in DOMAIN workers
    /\ workers[<<j, "desktop">>].pc \in {"done", "crashed"}

\* The final state of Job j is the one its own module's outcome determines:
\* a returned dict gives COMPLETED with that module's result and artifact and
\* no error_message, a failure gives FAILED with the failure's text and no
\* result or output files.
OwnOutcome(j) ==
    LET row == jobs[j]
        own == ModuleResult(row.case_id, row.tool_name)
    IN  \/ /\ row.status = COMPLETED
           /\ row.result_json = Some(own)
           /\ row.output_files_json = Some(<< <<row.tool_name, "out.json">> >>)
           /\ row.error_message = NoneStr
        \/ /\ row.status = FAILED
           /\ row.error_message \in {"boom", "Module returned non-dict result"}
           /\ row.result_json = None
           /\ row.output_files_json = None

\* C22: two submissions against the same evidence for different modules
\* reach terminal states independently: once both workers have ended each
\* Job's status, output_files, result and error_message are those of its own
\* module's outcome, and no step of one Job's worker changes the other Job.
C22_ConcurrentJobsIndependent ==
    /\ [](\A i, j \in DOMAIN jobs :
            (/\ i # j
             /\ jobs[i].evidence_id = jobs[j].evidence_id
             /\ jobs[i].tool_name # jobs[j].tool_name
             /\ WorkerEnded(i) /\ WorkerEnded(j))
                => OwnOutcome(i) /\ OwnOutcome(j))
    /\ [][\A i, j \in DOMAIN jobs :
            (i # j /\ DesktopWorkerStep(j)) => jobs'[i] = jobs[i]]_vars

\* The values of a result in the order _extract_output_files meets them:
\* output_file, then the items of output_files.
ReportedSeq(result) ==
    (IF "output_file" \in DOMAIN result THEN <<result["output_file"]>> ELSE <<>>)
        \o (IF "output_files" \in DOMAIN result THEN result["output_files"] ELSE <<>>)

\* A reported value is a path inside the artifact root.
InRoot(v, root) == IsStr(v) /\ IsUnder(Resolve(v), Resolve(root))

\* The position at which the in-root path named by entry is first reported.
FirstReported(rep, entry, root) ==
    CHOOSE k \in 1..Len(rep) :
        /\ InRoot(rep[k], root)
        /\ RelativeTo(Resolve(rep[k]), Resolve(root)) = entry
        /\ \A h \in 1..(k - 1) :
              ~(InRoot(rep[h], root) /\ RelativeTo(Resolve(rep[h]), Resolve(root)) = entry)

\* C23: output_files holds exactly the in-root paths of the result's
\* output_file and output_files, made relative to the artifact root, each
\* once, in the order of their first occurrence (output_file first).
C23_ExtractionExact ==
    \A j \in DOMAIN jobs :
        (jobs[j].output_files_json # None /\ jobs[j].result_json # None) =>
            LET root == ArtifactsRoot(jobs[j].case_id)
                files == jobs[j].output_files_json[1]
                rep == ReportedSeq(jobs[j].result_json[1])
            IN  /\ \A i \in 1..Len(files) :
                      \E k \in 1..Len(rep) :
                          /\ InRoot(rep[k], root)
                          /\ files[i] = RelativeTo(Resolve(rep[k]), Resolve(root))
                /\ \A k \in 1..Len(rep) :
                      InRoot(rep[k], root) =>
                          \E i \in 1..Len(files) :
                              files[i] = RelativeTo(Resolve(rep[k]), Resolve(root))
                /\ \A i, h \in 1..Len(files) :
                      i < h => /\ files[i] # files[h]
                               /\ FirstReported(rep, files[i], root)
                                     < FirstReported(rep, files[h], root)

\* A Job whose module reported one file twice, the second time after another
\* file: the duplicate is dropped and the first occurrence keeps its place.
C23_Witness ==
    \E j \in DOMAIN jobs :
        /\ jobs[j].result_json # None
        /\ DOMAIN jobs[j].result_json[1] = {"status", "output_file", "output_files"}
        /\ jobs[j].result_json[1]["output_file"] = ArtifactsRoot("c1") \o <<"verify", "out.json">>
        /\ jobs[j].result_json[1]["output_files"] =
              << ArtifactsRoot("c1") \o <<"tmp", "..", "out.csv">>,
                 ArtifactsRoot("c1") \o <<"verify", "out.json">> >>
        /\ jobs[j].output_files_json = Some(<< <<"verify", "out.json">>, <<"out.csv">> >>)

\* The keys a preview may carry: the fixed allow-list and output_file.
AllowListed ==
    {"status", "error", "file_count", "count", "event_count", "events_count",
     "messages_count", "parsed_objects", "tags_found", "entropy",
     "is_suspicious", "integrity_ok", "output_file"}

\* C24: result_preview holds exactly the allow-listed keys (and output_file)
\* that the result has, each with the result's value; it has no other key
\* and no key the result lacks.
C24_PreviewAllowListed ==
    \A j \in DOMAIN jobs :
        (jobs[j].result_preview_json # None /\ jobs[j].result_json # None) =>
            LET preview == jobs[j].result_preview_json[1]
                result == jobs[j].result_json[1]
            IN  /\ \A k \in DOMAIN preview :
                      /\ k \in AllowListed
                      /\ k \in DOMAIN result
                      /\ preview[k] = result[k]
                /\ \A k \in AllowListed \cap DOMAIN result : k \in DOMAIN preview

\* A Job whose result has keys on the allow-list and a key outside it: the
\* preview has only the former.
C24_Witness ==
    \E j \in DOMAIN jobs :
        /\ jobs[j].result_json # None
        /\ jobs[j].result_preview_json # None
        /\ DOMAIN jobs[j].result_json[1] = {"status", "output_file", "output_files"}
        /\ DOMAIN jobs[j].result_preview_json[1] = {"status", "output_file"}

\* The module of Job j returned a dict whose output_file is a path under the
\* artifact root of the Job's case.
RanWithArtifact(j) ==
    /\ jobs[j].result_json # None
    /\ "output_file" \in DOMAIN jobs[j].result_json[1]
    /\ InRoot(jobs[j].result_json[1]["output_file"], ArtifactsRoot(jobs[j].case_id))

\* C25: a Job whose module's run succeeds and returns an output_file under
\* the case's artifact root ends COMPLETED with at least one artifact-relative
\* path in output_files.
C25_SuccessfulRunCompletes ==
    \A j \in DOMAIN jobs :
        (WorkerEnded(j) /\ RanWithArtifact(j)) =>
            /\ jobs[j].status = COMPLETED
            /\ jobs[j].output_files_json # None
            /\ Len(jobs[j].output_files_json[1]) >= 1

\* C26: a Job's id, case_id, tool_name, evidence_id and params never change
\* after creation, whatever step is taken, and every submission, a re-run of
\* the same module included, creates a Job under an id no Job had before.
C26_IdentityImmutable ==
    [][/\ \A j \in DOMAIN jobs :
            /\ j \in DOMAIN jobs'
            /\ jobs'[j].case_id = jobs[j].case_id
            /\ jobs'[j].tool_name = jobs[j].tool_name
            /\ jobs'[j].evidence_id = jobs[j].evidence_id
            /\ jobs'[j].params_json = jobs[j].params_json
       /\ \A j \in (DOMAIN jobs') \ (DOMAIN jobs) :
            /\ j > nextId
            /\ jobs'[j].status = PENDING]_vars

\* A module was run again for the same case and evidence: two Jobs, the
\* first one finished and later touched by update_job_status.
C26_Witness ==
    /\ DOMAIN jobs = {1, 2}
    /\ jobs[1].tool_name = jobs[2].tool_name
    /\ jobs[1].case_id = jobs[2].case_id
    /\ jobs[1].evidence_id = jobs[2].evidence_id
    /\ jobs[1].params_json = jobs[2].params_json
    /\ jobs[1].completed_at # NoTime
    /\ jobs[2].status = RUNNING
    /\ updates = 1

\* What the row created for a submission must carry: the submitter's
\* identity as params.actor, the evidence reference in params when one was
\* sent, and the evidence reference (or none) as evidence_id.
CarriesSubmission(row, actor, evidence_id) ==
    /\ "actor" \in DOMAIN row.params_json
    /\ row.params_json["actor"] = actor
    /\ Truthy(evidence_id) =>
          /\ "evidence_id" \in DOMAIN row.params_json
          /\ row.params_json["evidence_id"] = evidence_id
    /\ row.evidence_id = (IF Truthy(evidence_id) THEN evidence_id ELSE NoneStr)

\* C27: the params stored with a Job carry the submitter's identity, whatever
\* params.actor the caller sent, and the submission's evidence reference
\* when there is one; the Job's evidence_id is the submission's evidence
\* reference, and is absent when the submission has none.
C27_ParamsCarrySubmission ==
    [][\A c \in CaseInputs, m \in ModuleInputs, e \in EvidenceChoices, p \in ParamChoices :
          /\ (SubmitWebWithin(MaxJobs, c, m, e, p) /\ sub'.pc = "web_commit")
                => CarriesSubmission(sub'.row[1], WebUser, e)
          /\ (SubmitDesktopWithin(MaxJobs, c, m, e, p) /\ sub'.pc = "desk_custody")
                => CarriesSubmission(jobs'[sub'.jid], DesktopActor, e)]_vars

\* C28: under inline mode every Job gets the dispatch token inline:<job_id>
\* and no publish is attempted: the submission meets no publish outcome and
\* the queue is as it was.
C28_InlineModeNeverPublishes ==
    [][(nextId' = nextId + 1 /\ sub'.mode = "inline")
          => /\ sub'.pc = "web_commit"
             /\ sub'.row[1].rq_job_id = InlineToken(nextId')
             /\ sub'.po \notin PublishOutcomes
             /\ queue' = queue]_vars

\* A Job submitted under inline mode has been committed with its inline
\* token while nothing was ever published.
C28_Witness ==
    /\ sub.pc = "web_custody"
    /\ sub.mode = "inline"
    /\ sub.jid \in DOMAIN jobs
    /\ jobs[sub.jid].rq_job_id = InlineToken(sub.jid)
    /\ queue = {}
    /\ workers = <<>>

\* Job j is backed by a thread of the submitting process.
InlineBacked(j) ==
    jobs[j].rq_job_id # None /\ jobs[j].rq_job_id[1] \in {"inline", "desktop-inline"}

\* C29: every Job committed by an inline-backed submit has a worker started
\* for it once the submit has ended, whatever the job.enqueue custody and
\* audit writes did.
C29_InlineJobHasWorker ==
    \A j \in DOMAIN jobs :
        (InlineBacked(j) /\ sub.jid # j) => \E w \in DOMAIN workers : w[1] = j

\* C30: a Job's evidence_id, when set, names an evidence item that exists
\* and belongs to the Job's case, for committed rows and for the row a
\* request has created.
C30_EvidenceBelongsToCase ==
    LET Valid(row) ==
            Truthy(row.evidence_id) =>
                /\ row.evidence_id \in DOMAIN EvidenceCase
                /\ EvidenceCase[row.evidence_id] = row.case_id
    IN  /\ \A j \in DOMAIN jobs : Valid(jobs[j])
        /\ sub.row # None => Valid(sub.row[1])

====
